---- MODULE Spec2Model ----
(***************************************************************************)
(* The rsync backup engine of src/rsyncbackup.py: the dated snapshot       *)
(* directories <backup_location>/<server>/<date>/<relative-dir>, the       *)
(* per-directory transfer planning of RsyncBackup.__rsync, its retention   *)
(* pruning, and the read-only report of RsyncBackup.check_backups.         *)
(*                                                                         *)
(* Text is a sequence of tokens ("etc", "/", "0", "9"); a path is the      *)
(* sequence of its components (pathlib's Path.parts), each component a     *)
(* text.  A snapshot date name is the text strftime produces; of the       *)
(* default format %Y%m%d the model keeps the two-digit day field, the      *)
(* year and month being the same for every day of the model.               *)
(***************************************************************************)
EXTENDS Integers, Sequences, FiniteSets

\* ------------------------------------------------------------------ bounds
\* the first calendar day on which the program is started; the clock counts
\* the days on which backup() is run
FirstDay == 9
\* snapshots may pre-exist for the NumPrior days before FirstDay
NumPrior == 2
\* number_of_versions ranges over 0 .. MaxRetention
MaxRetention == 2
\* backup() runs started in one behaviour, on one day or on several
MaxRuns == 2

\* the last day the clock reaches: every run may be on a day of its own
LastDay == FirstDay + MaxRuns - 1
PriorDays == (FirstDay - NumPrior) .. (FirstDay - 1)

None == <<"None">>

\* ------------------------------------------------------------------- text
Digits == <<"0", "1", "2", "3", "4", "5", "6", "7", "8", "9">>

\* the code point order of the digit characters
Ord(c) == CHOOSE i \in 0..9 : Digits[i + 1] = c

IsDigit(c) == \E i \in 1..10 : Digits[i] = c

\* datetime.now().strftime(date_format): zero-padded, fixed width
strftime(day) == <<Digits[(day \div 10) + 1], Digits[(day % 10) + 1]>>

\* the day number datetime.strptime reads from a text of digits
RECURSIVE DigitsValue(_)
DigitsValue(name) ==
    IF name = <<>> THEN 0
    ELSE 10 * DigitsValue(SubSeq(name, 1, Len(name) - 1)) + Ord(name[Len(name)])

\* a test that accepts a day only when it is written with two digits
zero_padded_only(name) ==
    /\ Len(name) = 2
    /\ \A i \in 1..Len(name) : IsDigit(name[i])
    /\ DigitsValue(name) \in 1..31

\* RsyncBackup.__is_valid_date_format: strptime accepts one or two digits
\* for a day field, naming a day 1..31
is_valid_date_format(name) ==
    /\ Len(name) \in 1..2
    /\ \A i \in 1..Len(name) : IsDigit(name[i])
    /\ DigitsValue(name) \in 1..31

\* Python's order on str: lexicographic by code point
RECURSIVE StrLess(_, _)
StrLess(a, b) ==
    IF a = <<>> THEN b # <<>>
    ELSE IF b = <<>> THEN FALSE
    ELSE IF a[1] = b[1] THEN StrLess(Tail(a), Tail(b))
    ELSE Ord(a[1]) < Ord(b[1])

\* sorted(names): the names in ascending order
RECURSIVE sorted(_)
sorted(S) ==
    IF S = {} THEN <<>>
    ELSE LET m == CHOOSE x \in S : \A y \in S \ {x} : StrLess(x, y)
         IN  <<m>> \o sorted(S \ {m})

Range(q) == {q[i] : i \in 1..Len(q)}

\* ------------------------------------------------------------------ paths
Root == <<"/">>
Sep == <<"/">>

\* "/".join(parts)
RECURSIVE Join(_)
Join(parts) ==
    IF parts = <<>> THEN <<>>
    ELSE IF Len(parts) = 1 THEN parts[1]
    ELSE parts[1] \o Sep \o Join(Tail(parts))

\* str(Path): an absolute path starts with the separator
PathStr(parts) ==
    IF parts # <<>> /\ parts[1] = Root THEN Root \o Join(Tail(parts))
    ELSE Join(parts)

\* directory.parts[1:] if directory.parts[0] == '/' else directory.parts
stripped_directory(directory) ==
    IF directory[1] = Root THEN Tail(directory) ELSE directory

\* the non-empty prefixes of a relative path: what mkdir(parents=True) makes
Prefixes(rel) == {SubSeq(rel, 1, n) : n \in 1..Len(rel)}

\* ---------------------------------------------------------- configuration
\* config["backup_location"]
backup_location == <<Root, <<"backups">>>>

\* config.get("remote_user", "root")
backup_user == <<"root">>

Servers == {"web1", "db1"}

ServerText(s) == <<s>>

\* config["source_location"]: per server the directories to back up, in
\* configuration order; /etc/nginx is absolute, srv/www is root-relative
FlatLocation ==
    << [server |-> "web1",
        dirs   |-> << <<Root, <<"etc">>, <<"nginx">>>>, <<<<"srv">>, <<"www">>>> >>],
       [server |-> "db1",
        dirs   |-> << <<Root, <<"var">>>> >>] >>

\* a source_location in which web1 lists /etc/nginx before its ancestor /etc
NestedLocation ==
    << [server |-> "web1",
        dirs   |-> << <<Root, <<"etc">>, <<"nginx">>>>, <<Root, <<"etc">>>> >>],
       [server |-> "db1",
        dirs   |-> << <<Root, <<"var">>>> >>] >>

CheckTypes == {"default", "full", "last"}

VARIABLES
    \* configuration, read once by RsyncBackup.__init__
    source_location, number_of_versions, need_mount_fs, cryptfs,
    \* the calendar day
    clock,
    \* storage under backup_location: the server roots that exist, per server
    \* the date-named directories with the relative directories below each,
    \* and the entries of a server root that are not directories
    roots, tree, files,
    \* the volume of backup_location is mounted / the encrypted device is open
    mounted, unlocked,
    \* the calls the running process has made to the volume managers so far
    \* ("unlock_fs()", "mount()", "umount()", "lock_fs()"), and the command the
    \* step just taken ran for the volume ("" when it ran none)
    calls, issued,
    \* the running process: its position, its arguments and backup_date
    pc, run,
    \* RsyncBackup.__rsync: index of the server, index of the directory,
    \* and the listing taken for the server
    srv, dirIdx, previous_backup_dates,
    \* the last rsync command run, with its exit status
    lastCmd,
    \* history of the current run: the transfers made, each as (server, index
    \* of the directory, exit status of rsync), and the server roots and the
    \* tree as they were when the run started
    transferred, before,
    \* history across runs: the destinations whose last transfer left no
    \* complete copy, as (server, date, relative directory, "failed" or
    \* "dry"): "failed" when rsync exited non-zero, "dry" when it ran with
    \* --dry-run; recorded by the steps RsyncSucceeds and RsyncFails
    outcome,
    \* backup() runs started so far; backup() runs started on this calendar
    \* day, and per server the completed backup() runs of the day that
    \* processed it
    runsTotal, runsToday, doneToday

cfgVars == <<source_location, number_of_versions, need_mount_fs, cryptfs>>
fsVars == <<roots, tree, files>>
envVars == <<mounted, unlocked, calls>>
loopVars == <<srv, dirIdx, previous_backup_dates>>
histVars == <<transferred, before, outcome>>
dayVars == <<runsTotal, runsToday, doneToday>>
vars == <<cfgVars, clock, fsVars, envVars, issued, pc, run, loopVars, lastCmd,
          histVars, dayVars>>

NoRun == [mode |-> "none", dryrun |-> FALSE, selected |-> "", check_type |-> "",
          backup_date |-> <<>>]

NoCmd == [server |-> "", directory |-> <<>>, dry_run |-> FALSE, source |-> <<>>,
          target |-> <<>>, last_backup |-> None, link_dest |-> None, rc |-> 0]

EmptyTree == [s \in Servers |-> {}]

NoStorage == [roots |-> {}, tree |-> EmptyTree]

\* ---------------------------------------------------------------- storage
\* the names of the entries of a server root (os.listdir)
listdir(s) == {p[1] : p \in tree[s]} \cup files[s]

\* the date-named snapshot directories of a server root in tree t
DateDirs(t, s) == {p[1] : p \in t[s]}

\* Path(target_location, name, rel).is_dir()
is_dir(s, name, rel) == (<<name>> \o rel) \in tree[s]

\* the entry <target_location>/<name> is a regular file
is_file(s, name) == name \in files[s]

\* Path.exists(): a directory or any other entry
exists(s, name, rel) ==
    \/ is_dir(s, name, rel)
    \/ rel = <<>> /\ name \in files[s]

\* a mkdir that makes the date directory but not the destination below it
mkdir_date_only(t, s, name, rel) ==
    [t EXCEPT ![s] = @ \cup {<<name>>}]

\* Path.mkdir(parents=True) of <target_location>/<name>/<rel>
mkdir_parents(t, s, name, rel) ==
    [t EXCEPT ![s] = @ \cup Prefixes(<<name>> \o rel)]

\* an rmdir that takes the date directory away but leaves what is below it
rmdir_only(t, s, name) == [t EXCEPT ![s] = @ \ {<<name>>}]

\* shutil.rmtree(<target_location>/<name>)
rmtree(t, s, name) == [t EXCEPT ![s] = {p \in @ : p[1] # name}]

\* RsyncBackup.__get_old_backup_dates
get_old_backup_dates(s) ==
    IF s \notin roots THEN <<>>
    ELSE sorted({dir_name \in listdir(s) : is_valid_date_format(dir_name)})

\* a lookup that takes every snapshot date, whether or not it holds rel
get_old_backup_dates_unfiltered(s, dates, rel) == dates

\* RsyncBackup.__get_old_backup_directories
get_old_backup_directories(s, dates, rel) ==
    IF dates = <<>> THEN <<>>
    ELSE sorted({previous_backup \in Range(dates) : is_dir(s, previous_backup, rel)})

\* ------------------------------------------------------- transfer planning
\* socket.gethostname() of the machine the program runs on
hostname == <<"db1", ".", "lan">>

\* fqdn_name.split('.')[0]
RECURSIVE UpToDot(_)
UpToDot(t) ==
    IF t = <<>> \/ t[1] = "." THEN <<>> ELSE <<t[1]>> \o UpToDot(Tail(t))

short_name == UpToDot(hostname)

\* a test that takes every server for a remote one
never_local(s) == FALSE

system_is_local(s) == short_name = ServerText(s) \/ hostname = ServerText(s)

\* f'{backup_user}@{servername}:{directory}/'
remote_location(s, directory) ==
    backup_user \o <<"@">> \o ServerText(s) \o <<":">> \o PathStr(directory) \o Sep

source_path(s, directory) ==
    IF system_is_local(s) THEN PathStr(directory) \o Sep
    ELSE remote_location(s, directory)

\* Path(backup_location) / servername
target_location(s) == backup_location \o <<ServerText(s)>>

\* Path(target_location) / backup_date / stripped_directory
object_target(s, date, directory) ==
    target_location(s) \o <<date>> \o stripped_directory(directory)

\* [date for date in previous_backups if date != backup_date]
RECURSIVE Without(_, _)
Without(q, x) ==
    IF q = <<>> THEN <<>>
    ELSE IF q[1] = x THEN Without(Tail(q), x)
    ELSE <<q[1]>> \o Without(Tail(q), x)

\* a choice of the last listed date that does not look whether it holds the
\* directory
last_listed(s, dates, date, directory) ==
    LET previous_backups == Without(dates, date)
    IN  IF previous_backups = <<>> THEN None
        ELSE sorted(Range(previous_backups))[Len(previous_backups)]

\* sorted(previous_backups)[-1] if previous_backups else None
last_backup(s, dates, date, directory) ==
    LET previous_backups ==
            Without(get_old_backup_directories(s, dates,
                                               stripped_directory(directory)), date)
    IN  IF previous_backups = <<>> THEN None
        ELSE sorted(Range(previous_backups))[Len(previous_backups)]

\* f'{target_location}/{last_backup}{directory}'
link_dest(s, last, directory) ==
    PathStr(target_location(s)) \o Sep \o last \o PathStr(directory)

\* the rsync command line of one directory, with the exit status rsync gave
rsync_cmd(s, directory, rc) ==
    LET last == last_backup(s, previous_backup_dates, run.backup_date, directory)
    IN  [server      |-> s,
         directory   |-> directory,
         dry_run     |-> run.dryrun,
         source      |-> source_path(s, directory),
         target      |-> PathStr(object_target(s, run.backup_date, directory)),
         last_backup |-> last,
         link_dest   |-> IF last = None THEN None ELSE link_dest(s, last, directory),
         rc          |-> rc]

\* ---------------------------------------------------------- initial state
\* the tree left by earlier runs: hist[s][d] is the number of directories of
\* server s, counted from the first of its list, that the run of prior day d
\* captured; 0 when no run processed the server on that day
HistoryTree(loc, hist) ==
    [s \in Servers |->
        UNION {UNION {Prefixes(<<strftime(d)>> \o stripped_directory(loc[i].dirs[j])) :
                        j \in 1..hist[loc[i].server][d]} :
               <<i, d>> \in {x \in (1..Len(loc)) \X PriorDays : loc[x[1]].server = s}}]

\* the numbers of directories a run can have captured of one server
DirCounts(loc) == UNION {0..Len(loc[i].dirs) : i \in 1..Len(loc)}

\* the histories of a configuration
Histories(loc) ==
    {hist \in [Servers -> [PriorDays -> DirCounts(loc)]] :
        \A i \in 1..Len(loc), d \in PriorDays :
            hist[loc[i].server][d] <= Len(loc[i].dirs)}

\* no process runs
InitProcess ==
    /\ clock = FirstDay
    /\ mounted = FALSE
    /\ unlocked = FALSE
    /\ calls = <<>>
    /\ issued = ""
    /\ pc = "idle"
    /\ run = NoRun
    /\ srv = 0
    /\ dirIdx = 0
    /\ previous_backup_dates = <<>>
    /\ lastCmd = NoCmd
    /\ transferred = {}
    /\ before = NoStorage
    /\ outcome = {}
    /\ runsTotal = 0
    /\ runsToday = 0
    /\ doneToday = [s \in Servers |-> 0]

\* the server roots hold snapshot directories only
InitRun ==
    /\ files = [s \in Servers |-> {}]
    /\ roots = {s \in Servers : tree[s] # {}}
    /\ InitProcess

\* the configuration: need_mount_fs and encrypt_storage at their defaults
\* (config.get("need_mount_fs", True), config.get("encrypt_storage", False))
InitConfig ==
    /\ source_location = FlatLocation
    /\ number_of_versions \in 0..MaxRetention
    /\ need_mount_fs = TRUE
    /\ cryptfs = FALSE

Init ==
    /\ InitConfig
    /\ \E hist \in Histories(FlatLocation) : tree = HistoryTree(FlatLocation, hist)
    /\ InitRun

\* ------------------------------------------------------------ the process
servername == source_location[srv].server

directory_list == source_location[srv].dirs

\* where the loop over self.__rsync_backups goes after server number i - 1
AfterServer(i) == IF i > Len(source_location) THEN "umount" ELSE "server"

\* a loop over the directories that goes to the prune step after the first
prune_after_first(i) == IF i > 1 THEN "prune" ELSE "dirs"

\* where the loop over the directories goes after directory number i - 1
AfterDirectory(i) == IF i > Len(directory_list) THEN "prune" ELSE "dirs"

\* a start that calls unlock_fs() whatever the configuration says
always_unlock == "unlock"

\* backup() and check_backups() start with "if self.__cryptfs:"
AfterStart == IF cryptfs THEN "unlock" ELSE "mount"

\* and end with "if self.__cryptfs:"
AfterUmount == IF cryptfs THEN "lock" ELSE "post"

\* main(): RsyncBackup(config_file, dryrun) and backup(args.server)
Backup(dryrun, selected) ==
    /\ pc = "idle"
    /\ run' = [mode |-> "backup", dryrun |-> dryrun, selected |-> selected,
               check_type |-> "", backup_date |-> strftime(clock)]
    /\ pc' = AfterStart
    /\ before' = [roots |-> roots, tree |-> tree]
    /\ runsTotal' = runsTotal + 1
    /\ runsToday' = runsToday + 1
    /\ issued' = ""
    /\ UNCHANGED <<cfgVars, clock, fsVars, envVars, loopVars, lastCmd,
                   transferred, outcome, doneToday>>

\* the program is started for a backup, with any arguments
StartBackup ==
    /\ runsTotal < MaxRuns
    /\ \E dryrun \in BOOLEAN, selected \in {""} \cup Servers : Backup(dryrun, selected)

\* main(): RsyncBackup(config_file) and check_backups(args.check, args.server)
StartCheck ==
    /\ pc = "idle"
    /\ \E check_type \in CheckTypes, selected \in {""} \cup Servers :
          run' = [mode |-> "check", dryrun |-> FALSE, selected |-> selected,
                  check_type |-> check_type, backup_date |-> strftime(clock)]
    /\ pc' = AfterStart
    /\ before' = [roots |-> roots, tree |-> tree]
    /\ issued' = ""
    /\ UNCHANGED <<cfgVars, clock, fsVars, envVars, loopVars, lastCmd,
                   transferred, outcome, dayVars>>

\* main(): RsyncBackup(config_file) and mount(args.mount)
StartMount ==
    /\ pc = "idle"
    /\ \E mount_type \in {"mount", "umount"} :
          /\ run' = [NoRun EXCEPT !.mode = mount_type]
          /\ pc' = IF mount_type = "mount" THEN AfterStart ELSE "umount"
    /\ issued' = ""
    /\ UNCHANGED <<cfgVars, clock, fsVars, envVars, loopVars, lastCmd,
                   histVars, dayVars>>

\* self.__cryptfs.unlock_fs(), which opens the device and mounts it on
\* backup_location
Unlock ==
    /\ pc = "unlock"
    /\ unlocked' = TRUE
    /\ mounted' = TRUE
    /\ calls' = Append(calls, "unlock_fs()")
    /\ issued' = "cryptsetup"
    /\ pc' = "mount"
    /\ UNCHANGED <<cfgVars, clock, fsVars, run, loopVars, lastCmd, histVars, dayVars>>

\* where backup(), check_backups() and mount('mount') go after the mount step
AfterMount ==
    IF run.mode = "check" THEN "check"
    ELSE IF run.mode = "mount" THEN "post"
    ELSE AfterServer(1)

\* a MountManager.mount() that runs the mount command whatever __is_mounted()
\* says
mount_always(ok) ==
    /\ calls' = Append(calls, "mount()")
    /\ issued' = "mount"
    /\ mounted' = (mounted \/ ok)

\* MountManager.mount(): nothing when __is_mounted(), else the mount command,
\* which mounts the volume or fails (ok); its exit status is not looked at
MountManager_mount(ok) ==
    /\ calls' = Append(calls, "mount()")
    /\ IF mounted
       THEN /\ issued' = ""
            /\ mounted' = mounted
       ELSE /\ issued' = "mount"
            /\ mounted' = ok

\* MountManager.umount(): nothing unless __is_mounted(), else umount -f
MountManager_umount ==
    /\ calls' = Append(calls, "umount()")
    /\ IF mounted
       THEN /\ issued' = "umount"
            /\ mounted' = FALSE
       ELSE /\ issued' = ""
            /\ mounted' = mounted

\* the mount step of backup(), check_backups() and mount('mount')
MountStep(ok) ==
    /\ pc = "mount"
    /\ IF need_mount_fs THEN MountManager_mount(ok)
       ELSE mounted' = mounted /\ calls' = calls /\ issued' = ""
    /\ srv' = 1
    /\ pc' = AfterMount
    /\ UNCHANGED <<cfgVars, clock, fsVars, unlocked, run, dirIdx,
                   previous_backup_dates, lastCmd, histVars, dayVars>>

\* if self.__need_mount_fs: mount_fs.mount(), a no-op when already mounted
Mount ==
    /\ pc = "mount"
    /\ MountStep(TRUE)

\* mount_fs.mount() whose mount command fails: the volume is not mounted and
\* the caller goes on
MountFails ==
    /\ need_mount_fs
    /\ ~mounted
    /\ MountStep(FALSE)

\* unlock_fs() whose cryptsetup open fails: the CalledProcessError is logged
\* inside unlock_fs(), nothing is mounted and the caller goes on
UnlockFails ==
    /\ pc = "unlock"
    /\ calls' = Append(calls, "unlock_fs()")
    /\ issued' = "cryptsetup"
    /\ pc' = "mount"
    /\ UNCHANGED <<cfgVars, clock, fsVars, mounted, unlocked, run, loopVars,
                   lastCmd, histVars, dayVars>>

\* __rsync: a server the -s argument does not select is passed over
ServerSkip ==
    /\ pc = "server"
    /\ run.selected # "" /\ servername # run.selected
    /\ srv' = srv + 1
    /\ pc' = AfterServer(srv + 1)
    /\ issued' = ""
    /\ UNCHANGED <<cfgVars, clock, fsVars, envVars, run, dirIdx,
                   previous_backup_dates, lastCmd, histVars, dayVars>>

\* __rsync: the listing of the server root, then the root is created
ServerBegin ==
    /\ pc = "server"
    /\ ~(run.selected # "" /\ servername # run.selected)
    /\ previous_backup_dates' = get_old_backup_dates(servername)
    /\ roots' = roots \cup {servername}
    /\ dirIdx' = 1
    /\ pc' = AfterDirectory(1)
    /\ issued' = ""
    /\ UNCHANGED <<cfgVars, clock, tree, files, envVars, run, srv, lastCmd,
                   histVars, dayVars>>

\* __rsync: the destination of the directory exists already
RsyncSkip ==
    /\ pc = "dirs"
    /\ exists(servername, run.backup_date, stripped_directory(directory_list[dirIdx]))
    /\ dirIdx' = dirIdx + 1
    /\ pc' = AfterDirectory(dirIdx + 1)
    /\ issued' = ""
    /\ UNCHANGED <<cfgVars, clock, fsVars, envVars, run, srv,
                   previous_backup_dates, lastCmd, histVars, dayVars>>

\* __rsync: object_target.mkdir(parents=True) raises NotADirectoryError when
\* the entry named backup_date is a regular file; nothing in __rsync or
\* backup() catches it
MkdirRaises ==
    /\ pc = "dirs"
    /\ ~exists(servername, run.backup_date, stripped_directory(directory_list[dirIdx]))
    /\ is_file(servername, run.backup_date)
    /\ pc' = "raised"
    /\ issued' = ""
    /\ UNCHANGED <<cfgVars, clock, fsVars, envVars, run, loopVars, lastCmd,
                   histVars, dayVars>>

\* a transfer step that leaves the loops when rsync exits non-zero
RsyncTransferStops ==
    /\ pc = "dirs"
    /\ ~exists(servername, run.backup_date, stripped_directory(directory_list[dirIdx]))
    /\ ~is_file(servername, run.backup_date)
    /\ tree' = mkdir_parents(tree, servername, run.backup_date,
                             stripped_directory(directory_list[dirIdx]))
    /\ \E rc \in {0, 1} :
          /\ lastCmd' = rsync_cmd(servername, directory_list[dirIdx], rc)
          /\ transferred' = transferred \cup {<<servername, dirIdx, rc>>}
          /\ pc' = IF rc = 0 THEN AfterDirectory(dirIdx + 1) ELSE "umount"
    /\ dirIdx' = dirIdx + 1
    /\ issued' = ""
    /\ UNCHANGED <<cfgVars, clock, roots, files, envVars, run, srv,
                   previous_backup_dates, before, outcome, dayVars>>

\* __rsync: the destination is created and rsync is run for the directory
RsyncTransfer ==
    /\ pc = "dirs"
    /\ ~exists(servername, run.backup_date, stripped_directory(directory_list[dirIdx]))
    /\ ~is_file(servername, run.backup_date)
    /\ tree' = mkdir_parents(tree, servername, run.backup_date,
                             stripped_directory(directory_list[dirIdx]))
    /\ \E rc \in {0, 1} :
          /\ lastCmd' = rsync_cmd(servername, directory_list[dirIdx], rc)
          /\ transferred' = transferred \cup {<<servername, dirIdx, rc>>}
    /\ dirIdx' = dirIdx + 1
    /\ pc' = AfterDirectory(dirIdx + 1)
    /\ issued' = ""
    /\ UNCHANGED <<cfgVars, clock, roots, files, envVars, run, srv,
                   previous_backup_dates, before, outcome, dayVars>>

\* a test that lets one snapshot more stand
prune_due_late(dates) == Len(dates) > number_of_versions + 1

\* len(previous_backup_dates) > self.__number_of_versions
prune_due(dates) == Len(dates) > number_of_versions

\* the last entry of the listing instead of the first
newest_backup(dates) == dates[Len(dates)]

\* oldest_backup = previous_backup_dates[0]
oldest_backup(dates) == dates[1]

\* __rsync: after the directories of a server, the oldest snapshot is removed
Prune ==
    /\ pc = "prune"
    /\ IF /\ prune_due(previous_backup_dates)
          /\ is_dir(servername, oldest_backup(previous_backup_dates), <<>>)
       THEN tree' = rmtree(tree, servername, oldest_backup(previous_backup_dates))
       ELSE UNCHANGED tree
    /\ srv' = srv + 1
    /\ pc' = AfterServer(srv + 1)
    /\ issued' = ""
    /\ UNCHANGED <<cfgVars, clock, roots, files, envVars, run, dirIdx,
                   previous_backup_dates, lastCmd, transferred, before, outcome,
                   dayVars>>

\* the (server, directory) pairs __check_number_backups reports on
Reported ==
    {<<i, j>> \in (1..Len(source_location)) \X (1..2) :
        /\ j <= Len(source_location[i].dirs)
        /\ ~(run.selected # "" /\ source_location[i].server # run.selected)}

\* the snapshot dates __check_number_backups finds for a reported pair
previous_backups(i, j) ==
    get_old_backup_directories(
        source_location[i].server,
        get_old_backup_dates(source_location[i].server),
        stripped_directory(source_location[i].dirs[j]))

\* sorted(directories)[-1] of check type 'last' raises IndexError on []
check_raises ==
    /\ run.check_type = "last"
    /\ \E r \in Reported : previous_backups(r[1], r[2]) = <<>>

\* a report that creates the server roots it lists, as __rsync does
CheckNumberBackupsMkdir ==
    /\ pc = "check"
    /\ pc' = IF check_raises THEN "raised" ELSE "umount"
    /\ roots' = roots \cup {source_location[r[1]].server : r \in Reported}
    /\ issued' = ""
    /\ UNCHANGED <<cfgVars, clock, tree, files, envVars, run, loopVars, lastCmd,
                   histVars, dayVars>>

\* __check_number_backups: the report is computed and printed
CheckNumberBackups ==
    /\ pc = "check"
    /\ pc' = IF check_raises THEN "raised" ELSE "umount"
    /\ issued' = ""
    /\ UNCHANGED <<cfgVars, clock, fsVars, envVars, run, loopVars, lastCmd,
                   histVars, dayVars>>

\* if self.__need_mount_fs: mount_fs.umount(), a no-op when not mounted
Umount ==
    /\ pc = "umount"
    /\ IF need_mount_fs THEN MountManager_umount
       ELSE mounted' = mounted /\ calls' = calls /\ issued' = ""
    /\ pc' = AfterUmount
    /\ UNCHANGED <<cfgVars, clock, fsVars, unlocked, run, loopVars, lastCmd,
                   histVars, dayVars>>

\* self.__cryptfs.lock_fs(), which unmounts and closes the device
Lock ==
    /\ pc = "lock"
    /\ unlocked' = FALSE
    /\ mounted' = FALSE
    /\ calls' = Append(calls, "lock_fs()")
    /\ issued' = "cryptsetup"
    /\ pc' = "post"
    /\ UNCHANGED <<cfgVars, clock, fsVars, run, loopVars, lastCmd, histVars, dayVars>>

\* the servers a run processes
Selected(r) ==
    {s \in Servers : (\E i \in 1..Len(source_location) : source_location[i].server = s)
                     /\ (r.selected = "" \/ r.selected = s)}

\* the process ends: __post_backup of backup(), or the return of check_backups()
Finish ==
    /\ pc = "post"
    /\ pc' = "idle"
    /\ run' = NoRun
    /\ srv' = 0
    /\ dirIdx' = 0
    /\ previous_backup_dates' = <<>>
    /\ lastCmd' = NoCmd
    /\ transferred' = {}
    /\ before' = NoStorage
    /\ IF run.mode = "backup"
       THEN doneToday' = [s \in Servers |->
                            IF s \in Selected(run) THEN doneToday[s] + 1
                            ELSE doneToday[s]]
       ELSE UNCHANGED doneToday
    /\ calls' = <<>>
    /\ issued' = ""
    /\ UNCHANGED <<cfgVars, clock, fsVars, mounted, unlocked, outcome, runsTotal,
                   runsToday>>

\* the process ends with the traceback of an uncaught exception
Abort ==
    /\ pc = "raised"
    /\ pc' = "idle"
    /\ run' = NoRun
    /\ srv' = 0
    /\ dirIdx' = 0
    /\ previous_backup_dates' = <<>>
    /\ lastCmd' = NoCmd
    /\ transferred' = {}
    /\ before' = NoStorage
    /\ calls' = <<>>
    /\ issued' = ""
    /\ UNCHANGED <<cfgVars, clock, fsVars, mounted, unlocked, outcome, dayVars>>

\* midnight passes while no process runs, after a day on which backup() ran
Midnight(last) ==
    /\ pc = "idle"
    /\ runsToday >= 1
    /\ clock < last
    /\ clock' = clock + 1
    /\ runsToday' = 0
    /\ doneToday' = [s \in Servers |-> 0]
    /\ issued' = ""
    /\ UNCHANGED <<cfgVars, fsVars, envVars, pc, run, loopVars, lastCmd, histVars,
                   runsTotal>>

AdvanceDay == Midnight(LastDay)

Next ==
    \/ StartBackup
    \/ StartCheck
    \/ Mount
    \/ ServerSkip
    \/ ServerBegin
    \/ RsyncSkip
    \/ RsyncTransfer
    \/ Prune
    \/ CheckNumberBackups
    \/ Umount
    \/ Finish
    \/ Abort
    \/ AdvanceDay

Spec == Init /\ [][Next]_vars

\* ------------------------------------- every configuration of the storage
\* need_mount_fs and encrypt_storage as the configuration file sets them
InitStorage ==
    /\ source_location = FlatLocation
    /\ number_of_versions \in 0..MaxRetention
    /\ need_mount_fs \in BOOLEAN
    /\ cryptfs \in BOOLEAN
    /\ \E hist \in Histories(FlatLocation) : tree = HistoryTree(FlatLocation, hist)
    /\ InitRun

NextStorage ==
    \/ Next
    \/ Unlock
    \/ Lock

SpecStorage == InitStorage /\ [][NextStorage]_vars

\* ------------------------------------------------- the daily-run scenario
\* storage starts empty and the program is started once per calendar day,
\* without --dryrun and without -s, for as many days as show the retention
\* count at work
LastDailyDay == FirstDay + MaxRetention + 1

InitDaily ==
    /\ InitConfig
    /\ tree = EmptyTree
    /\ InitRun

StartDaily ==
    /\ runsToday = 0
    /\ Backup(FALSE, "")

AdvanceDaily ==
    /\ runsToday = 1
    /\ Midnight(LastDailyDay)

NextDaily ==
    \/ StartDaily
    \/ Mount
    \/ ServerBegin
    \/ RsyncTransfer
    \/ Prune
    \/ Umount
    \/ Finish
    \/ AdvanceDaily

SpecDaily == InitDaily /\ [][NextDaily]_vars

\* ------------------------------- server roots that hold other entries too
\* names of entries that no run of the program made: a name that is no
\* date, a day written without its leading zero, yesterday's and today's date
ForeignNames == {<<"bogus">>, <<"8">>, strftime(FirstDay - 1), strftime(FirstDay)}

EntryKinds == {"absent", "dir", "file"}

\* the histories in which the run of a prior day, if there was one, captured
\* every directory of every server
UnfilteredHistories(loc) ==
    {hist \in Histories(loc) :
        \A d \in PriorDays :
            \/ \A i \in 1..Len(loc) : hist[loc[i].server][d] = Len(loc[i].dirs)
            \/ \A i \in 1..Len(loc) : hist[loc[i].server][d] = 0}

\* every server root holds the snapshots of a history and, of each foreign
\* name, nothing, an empty directory or a regular file
InitFiles ==
    /\ InitConfig
    /\ \E hist \in UnfilteredHistories(FlatLocation), kind \in [ForeignNames -> EntryKinds] :
          LET t == HistoryTree(FlatLocation, hist)
          IN  /\ tree = [s \in Servers |->
                            t[s] \cup {<<n>> : n \in {x \in ForeignNames : kind[x] = "dir"}}]
              /\ files = [s \in Servers |->
                            {n \in ForeignNames : kind[n] = "file" /\ <<n>> \notin t[s]}]
    /\ roots = {s \in Servers : tree[s] # {} \/ files[s] # {}}
    /\ InitProcess

\* one backup() run, without --dryrun and without -s
NextFiles ==
    \/ StartDaily
    \/ Mount
    \/ ServerBegin
    \/ RsyncTransfer
    \/ MkdirRaises
    \/ Prune
    \/ Umount
    \/ Finish
    \/ Abort

SpecFiles == InitFiles /\ [][NextFiles]_vars

\* ------------------------------------------------- the volume management
\* self.__cryptfs is set when the configuration has an encryptfs section and
\* encrypt_storage is true; need_mount_fs is as the configuration sets it
InitVolume ==
    /\ source_location = FlatLocation
    /\ number_of_versions \in 0..MaxRetention
    /\ need_mount_fs \in BOOLEAN
    /\ \E encryptfs \in BOOLEAN, encrypt_storage \in BOOLEAN :
          cryptfs = (encryptfs /\ encrypt_storage)
    /\ \E hist \in UnfilteredHistories(FlatLocation) :
          tree = HistoryTree(FlatLocation, hist)
    /\ InitRun

\* one backup() run, any number of check_backups() and mount() runs, and
\* mount commands and cryptsetup open that may fail; tree is what the run
\* finds under backup_location, mounted or not
NextVolume ==
    \/ StartDaily
    \/ StartCheck
    \/ StartMount
    \/ Unlock
    \/ UnlockFails
    \/ Mount
    \/ MountFails
    \/ ServerBegin
    \/ RsyncTransfer
    \/ Prune
    \/ CheckNumberBackups
    \/ Umount
    \/ Lock
    \/ Finish
    \/ Abort

SpecVolume == InitVolume /\ [][NextVolume]_vars

\* ------------------------------------ a directory configured with its ancestor
\* the configuration is FlatLocation or NestedLocation
InitNested ==
    /\ source_location \in {FlatLocation, NestedLocation}
    /\ number_of_versions \in 0..MaxRetention
    /\ need_mount_fs = TRUE
    /\ cryptfs = FALSE
    /\ \E hist \in UnfilteredHistories(source_location) :
          tree = HistoryTree(source_location, hist)
    /\ InitRun

\* one backup() run, the first of its day, without --dryrun and without -s
NextNested ==
    \/ StartDaily
    \/ Mount
    \/ ServerBegin
    \/ RsyncSkip
    \/ RsyncTransfer
    \/ Prune
    \/ Umount
    \/ Finish

SpecNested == InitNested /\ [][NextNested]_vars

\* ----------------------------------------- the outcome of earlier transfers
\* the program is started for a backup, with or without --dryrun, once more
\* than in Spec
MaxOutcomeRuns == MaxRuns + 1

StartAgain ==
    /\ runsTotal < MaxOutcomeRuns
    /\ \E dryrun \in BOOLEAN : Backup(dryrun, "")

\* __rsync: the destination is created and rsync is run for the directory,
\* exiting with status rc; what it leaves in the destination is recorded
Rsync(rc) ==
    /\ pc = "dirs"
    /\ ~exists(servername, run.backup_date, stripped_directory(directory_list[dirIdx]))
    /\ ~is_file(servername, run.backup_date)
    /\ tree' = mkdir_parents(tree, servername, run.backup_date,
                             stripped_directory(directory_list[dirIdx]))
    /\ lastCmd' = rsync_cmd(servername, directory_list[dirIdx], rc)
    /\ transferred' = transferred \cup {<<servername, dirIdx, rc>>}
    /\ LET dest == <<servername, run.backup_date,
                     stripped_directory(directory_list[dirIdx])>>
           rest == {o \in outcome : <<o[1], o[2], o[3]>> # dest}
       IN  outcome' = IF run.dryrun THEN rest \cup {dest \o <<"dry">>}
                      ELSE IF rc # 0 THEN rest \cup {dest \o <<"failed">>}
                      ELSE rest
    /\ dirIdx' = dirIdx + 1
    /\ pc' = AfterDirectory(dirIdx + 1)
    /\ issued' = ""
    /\ UNCHANGED <<cfgVars, clock, roots, files, envVars, run, srv,
                   previous_backup_dates, before, dayVars>>

\* rsync exits with status 0
RsyncSucceeds ==
    /\ pc = "dirs"
    /\ Rsync(0)

\* rsync exits with a non-zero status; __rsync does not look at it
RsyncFails ==
    /\ pc = "dirs"
    /\ Rsync(1)

InitOutcome ==
    /\ InitConfig
    /\ \E hist \in UnfilteredHistories(FlatLocation) :
          tree = HistoryTree(FlatLocation, hist)
    /\ InitRun

\* backup() runs on one day or on several, each transfer succeeding or failing
NextOutcome ==
    \/ StartAgain
    \/ Mount
    \/ ServerBegin
    \/ RsyncSkip
    \/ RsyncSucceeds
    \/ RsyncFails
    \/ Prune
    \/ Umount
    \/ Finish
    \/ AdvanceDay

SpecOutcome == InitOutcome /\ [][NextOutcome]_vars

\* ----------------------------------------------------------------- claims
\* a backup() run has executed the prune step of every server it processes
Completed == pc = "post" /\ run.mode = "backup"

\* the number of snapshot date directories of a server root in tree t
Count(t, s) == Cardinality(DateDirs(t, s))

\* d is the oldest of the date names D
Oldest(d, D) == d \in D /\ \A e \in D : e = d \/ StrLess(d, e)

\* C1: a server root that holds at most number_of_versions snapshot dates
\* when a backup() run starts holds at most number_of_versions snapshot
\* dates when the run has completed (stated for number_of_versions >= 1).
C1_RetentionInvariant ==
    (Completed /\ number_of_versions >= 1) =>
        \A s \in Selected(run) :
            Count(before.tree, s) <= number_of_versions
                => Count(tree, s) <= number_of_versions

\* C2: the prune step looks at the N snapshot dates on disk at the moment it
\* executes: if N > number_of_versions it removes exactly the oldest date,
\* otherwise it removes nothing (stated for number_of_versions >= 1).
C2_PruneRule ==
    [][(pc = "prune" /\ number_of_versions >= 1) =>
          LET D == DateDirs(tree, servername)
          IN  IF Cardinality(D) > number_of_versions
              THEN \E d \in D : /\ Oldest(d, D)
                                /\ DateDirs(tree', servername) = D \ {d}
              ELSE DateDirs(tree', servername) = D]_vars

\* C3: with storage empty at the start and one backup() run per calendar
\* day, after each day's run every server root holds exactly the
\* number_of_versions most recent dates (stated for number_of_versions >= 1).
C3_DailyRetention ==
    (pc = "idle" /\ runsToday = 1 /\ number_of_versions >= 1) =>
        \A s \in Servers :
            DateDirs(tree, s) =
                {strftime(d) : d \in {e \in FirstDay..clock :
                                         e > clock - number_of_versions}}

\* the relative directory __rsync is at
CurrentRel == stripped_directory(directory_list[dirIdx])

\* C4: in the backup() run that follows the first completed backup() run of
\* the calendar day for a server, every destination of that server is found
\* existing, no rsync transfer is made for it, and nothing is raised.
C4_SecondRunSkips ==
    run.mode = "backup" =>
        /\ \A t \in transferred : doneToday[t[1]] # 1
        /\ (pc = "dirs" /\ doneToday[servername] = 1)
              => (<<run.backup_date>> \o CurrentRel) \in tree[servername]
        /\ pc # "raised"

\* the second run of the day has passed over every directory of a server
C4_Witness ==
    /\ run.mode = "backup"
    /\ pc = "prune"
    /\ doneToday[servername] = 1
    /\ transferred = {}

\* C5: the second backup() run of a calendar day leaves under each server
\* root the snapshot date directories the first run left (stated for
\* number_of_versions >= 1).
C5_SecondRunNoOp ==
    (Completed /\ number_of_versions >= 1) =>
        \A s \in Selected(run) :
            doneToday[s] = 1 => DateDirs(tree, s) = DateDirs(before.tree, s)

\* the snapshot dates, other than today's, that hold the relative directory
\* of the last rsync command
Candidates ==
    {d \in DateDirs(tree, lastCmd.server) :
        /\ d # run.backup_date
        /\ (<<d>> \o stripped_directory(lastCmd.directory)) \in tree[lastCmd.server]}

\* the last rsync command is one of the server being processed, whose prune
\* step has not run yet
Transferred == pc \in {"dirs", "prune"} /\ lastCmd.server = servername

\* C6: the snapshot a transfer links against is the most recent date, other
\* than today's, that holds the relative directory; there is none exactly
\* when no date holds it.
C6_LinkReference ==
    Transferred =>
        IF Candidates = {} THEN lastCmd.last_backup = None
        ELSE /\ lastCmd.last_backup \in Candidates
             /\ \A d \in Candidates :
                    DigitsValue(d) <= DigitsValue(lastCmd.last_backup)

\* a more recent date that lacks the directory has been passed over
C6_Witness ==
    /\ Transferred
    /\ lastCmd.last_backup \in Candidates
    /\ \E d \in DateDirs(tree, lastCmd.server) \ Candidates :
          /\ d # run.backup_date
          /\ DigitsValue(d) > DigitsValue(lastCmd.last_backup)

\* C7: the --link-dest path of a transfer is
\* <backup_location>/<server>/<date>/<relative-dir>.
C7_LinkDestPath ==
    (Transferred /\ lastCmd.last_backup # None) =>
        lastCmd.link_dest =
            PathStr(backup_location \o <<ServerText(lastCmd.server)>>
                      \o <<lastCmd.last_backup>>
                      \o stripped_directory(lastCmd.directory))

\* C8: in a run started with --dryrun every rsync command carries --dry-run
\* and no snapshot date directory is deleted (stated for
\* number_of_versions >= 1).
C8_DryRunNoPrune ==
    (run.mode = "backup" /\ run.dryrun /\ number_of_versions >= 1) =>
        /\ lastCmd # NoCmd => lastCmd.dry_run
        /\ \A s \in Servers : DateDirs(before.tree, s) \subseteq DateDirs(tree, s)

\* C9: check_backups() leaves the server roots and the tree below them as
\* they were when it was called.
C9_CheckReadOnly ==
    run.mode = "check" => roots = before.roots /\ tree = before.tree

\* a check of a single server has returned, with snapshots on storage and a
\* configured server root that does not exist
C9_Witness ==
    /\ run.mode = "check"
    /\ pc = "post"
    /\ run.selected # ""
    /\ tree # EmptyTree
    /\ roots # Servers

\* the snapshot dates of a server that the current run has removed
Removed(s) == DateDirs(before.tree, s) \ DateDirs(tree, s)

\* C10: a backup() run removes at most one snapshot date directory per
\* server root, and the one it removes is the smallest date name that was
\* present when the run started.
C10_AtMostOneDeletion ==
    run.mode = "backup" =>
        \A s \in Servers :
            /\ Cardinality(Removed(s)) <= 1
            /\ \A d \in Removed(s) : Oldest(d, DateDirs(before.tree, s))

\* a run has removed a date of a root that exceeded the retention count by
\* more than one
C10_Witness ==
    /\ run.mode = "backup"
    /\ \E s \in Servers :
          /\ Removed(s) # {}
          /\ Count(before.tree, s) > number_of_versions + 1

\* C11: a daily backup() run, the first of its calendar day, that finds a
\* server root holding more snapshot dates than number_of_versions leaves it
\* holding fewer dates than it found: the root converges toward the limit
\* one day at a time (stated for number_of_versions >= 1).
C11_Convergence ==
    (Completed /\ runsToday = 1 /\ number_of_versions >= 1) =>
        \A s \in Selected(run) :
            Count(before.tree, s) > number_of_versions
                => Count(tree, s) < Count(before.tree, s)

\* the transfer of directory j of server s was made in the current run, or
\* its destination was there when the run started
Attempted(s, j) ==
    \/ \E rc \in {0, 1} : <<s, j, rc>> \in transferred
    \/ \E i \in 1..Len(source_location) :
          /\ source_location[i].server = s
          /\ (<<run.backup_date>> \o stripped_directory(source_location[i].dirs[j]))
                \in before.tree[s]

\* the positions of a backup() run from which it takes its next step
BackupPositions == {"unlock", "mount", "server", "dirs", "prune", "umount", "lock", "post"}

\* C12: whatever the exit status of the rsync transfers of a backup() run,
\* every directory of the server being processed that the loop has passed
\* was attempted, the run is never stopped by an exception but stands at a
\* position from which it takes its next step, and when it has completed
\* every directory of every server it processes was attempted.
C12_FailureIsolation ==
    run.mode = "backup" =>
        /\ pc \in BackupPositions
        /\ pc \in {"dirs", "prune"} =>
              \A j \in 1..(dirIdx - 1) : Attempted(servername, j)
        /\ pc \in {"post"} =>
              \A i \in 1..Len(source_location) :
                 source_location[i].server \in Selected(run) =>
                    \A j \in 1..Len(source_location[i].dirs) :
                        Attempted(source_location[i].server, j)

\* a run has completed in which the first transfer failed and a later
\* directory of the same server and a directory of a later server were
\* transferred
C12_Witness ==
    /\ Completed
    /\ \E i \in 1..Len(source_location), k \in 1..Len(source_location) :
          /\ i < k
          /\ <<source_location[i].server, 1, 1>> \in transferred
          /\ \E rc \in {0, 1} : <<source_location[i].server, 2, rc>> \in transferred
          /\ \E rc \in {0, 1} : <<source_location[k].server, 1, rc>> \in transferred

\* C17: a backup() run removes a snapshot date of a server root only when
\* every rsync transfer it made for that server exited with status 0
\* (stated for number_of_versions >= 1).
C17_PruneAfterSuccess ==
    (run.mode = "backup" /\ number_of_versions >= 1) =>
        \A s \in Servers :
            Removed(s) # {} => \A t \in transferred : t[1] = s => t[3] = 0

\* the names of the machine the program runs on: its short and its full
\* hostname
LocalNames == {<<"db1">>, <<"db1", ".", "lan">>}

\* C18: the source of an rsync command is '<directory>/' when the server
\* name is the short or the full hostname of the local machine, and
\* 'root@<server>:<directory>/' for every other server.
C18_TransferSource ==
    lastCmd # NoCmd =>
        lastCmd.source =
            IF <<lastCmd.server>> \in LocalNames
            THEN PathStr(lastCmd.directory) \o <<"/">>
            ELSE <<"root", "@", lastCmd.server, ":">>
                    \o PathStr(lastCmd.directory) \o <<"/">>

\* a run has transferred a directory of a remote server and then one of the
\* local machine
C18_Witness ==
    /\ run.mode = "backup"
    /\ lastCmd.server = "db1"
    /\ lastCmd.source = <<"/", "var", "/">>
    /\ \E t \in transferred : t[1] = "web1"

\* C13: a backup() run ends only from the position that follows its umount
\* and lock_fs steps, on every exit path.
C13_GuaranteedCleanup ==
    [][(run.mode = "backup" /\ pc' = "idle") => pc = "post"]_vars

\* the names that parse under the date format: the days of the month, with
\* or without a leading zero
DateNames == {strftime(d) : d \in 1..31} \cup {<<Digits[d + 1]>> : d \in 1..9}

\* the listing of a server root has just been taken
Listed == run.mode = "backup" /\ pc = "dirs" /\ dirIdx = 1

C16_DirectoriesOnly ==
    (run.mode = "backup" /\ pc \in {"dirs", "prune"}) =>
        /\ Range(previous_backup_dates) \cap files[servername] = {}
        /\ Removed(servername) # {}
              => Count(before.tree, servername) > number_of_versions

\* the positions of backup() inside __rsync and up to its umount step
InRsync == run.mode = "backup" /\ pc \in {"server", "dirs", "prune", "umount"}

\* C14: while the volume of the backup root is configured but not mounted,
\* backup() creates no directory, makes no transfer and removes no snapshot.
C14_MountFailureAborts ==
    (InRsync /\ (need_mount_fs \/ cryptfs) /\ ~mounted) =>
        /\ roots = before.roots
        /\ tree = before.tree
        /\ transferred = {}

\* the step calls MountManager.mount() / MountManager.umount()
CallsMount == calls' = Append(calls, "mount()")

CallsUmount == calls' = Append(calls, "umount()")

\* C19: MountManager.mount() called while the mount point is mounted runs no
\* command and changes nothing, and runs the mount command otherwise;
\* MountManager.umount() called while it is not mounted runs no command and
\* changes nothing, and runs the umount command otherwise.
C19_VolumeIdempotence ==
    [][/\ (CallsMount /\ mounted) =>
            issued' = "" /\ mounted' /\ unlocked' = unlocked /\ fsVars' = fsVars
       /\ (CallsMount /\ ~mounted) => issued' = "mount"
       /\ (CallsUmount /\ ~mounted) =>
            issued' = "" /\ ~mounted' /\ unlocked' = unlocked /\ fsVars' = fsVars
       /\ (CallsUmount /\ mounted) => issued' = "umount" /\ ~mounted']_vars

\* mount('mount') has called MountManager.mount() on a mounted volume
C19_Witness ==
    /\ run.mode = "mount"
    /\ pc = "post"
    /\ calls = <<"mount()">>
    /\ issued = ""
    /\ mounted

\* the number of calls of c the running process has made
CallCount(c) == Cardinality({k \in 1..Len(calls) : calls[k] = c})

\* C20: unlock_fs() and lock_fs() are called only when the encrypted volume
\* is configured; with it configured, backup() has called unlock_fs() once
\* and lock_fs() not yet while it is in its loops, and each of them once when
\* it has completed.
C20_EncryptedVolumeWhenEnabled ==
    /\ ~cryptfs => CallCount("unlock_fs()") = 0 /\ CallCount("lock_fs()") = 0
    /\ (InRsync /\ cryptfs) =>
          /\ calls[1] = "unlock_fs()"
          /\ CallCount("unlock_fs()") = 1
          /\ CallCount("lock_fs()") = 0
    /\ (Completed /\ cryptfs) =>
          /\ CallCount("unlock_fs()") = 1
          /\ CallCount("lock_fs()") = 1
          /\ calls[Len(calls)] = "lock_fs()"

\* a backup() run with the encrypted volume configured has completed after a
\* transfer and the removal of a snapshot
C20_Witness ==
    /\ Completed
    /\ cryptfs
    /\ transferred # {}
    /\ \E s \in Servers : Removed(s) # {}

\* the calls backup() makes before __rsync and after it
Prologue ==
    (IF cryptfs THEN <<"unlock_fs()">> ELSE <<>>)
        \o (IF need_mount_fs THEN <<"mount()">> ELSE <<>>)

Epilogue ==
    (IF need_mount_fs THEN <<"umount()">> ELSE <<>>)
        \o (IF cryptfs THEN <<"lock_fs()">> ELSE <<>>)

\* the position of a server in the configuration
ServerIndex(s) ==
    CHOOSE i \in 1..Len(source_location) : source_location[i].server = s

\* the step removes a snapshot date of server s
Removes(s) == DateDirs(tree, s) \ DateDirs(tree', s) # {}

\* C21: in a backup() run every step that creates a directory, makes a
\* transfer or removes a snapshot comes after unlock_fs() and mount() and
\* before umount() and lock_fs(); the transfers are made server by server and
\* directory by directory in configuration order; the prune step of a server
\* comes once, after all directories of that server; and the completed run
\* has called unlock_fs(), mount(), umount(), lock_fs() in this order, each
\* if configured.
C21_RunOrdering ==
    [][(run.mode = "backup" /\ pc # "post") =>
          /\ (tree' # tree \/ roots' # roots \/ transferred' # transferred) =>
                /\ pc \in {"server", "dirs", "prune"}
                /\ calls = Prologue
                /\ calls' = calls
          /\ transferred' # transferred =>
                /\ \E rc \in {0, 1} :
                      transferred' = transferred \cup {<<servername, dirIdx, rc>>}
                /\ \A t \in transferred :
                      \/ ServerIndex(t[1]) < srv
                      \/ t[1] = servername /\ t[2] < dirIdx
          /\ pc = "prune" =>
                /\ dirIdx > Len(directory_list)
                /\ pc' # "prune"
                /\ srv' = srv + 1
          /\ \A s \in Servers :
                Removes(s) => pc = "prune" /\ s = servername
          /\ pc' = "post" => calls' = Prologue \o Epilogue]_vars

\* a run with both volumes configured has completed after the transfers of
\* every directory and the removal of a snapshot of every server
C21_Witness ==
    /\ Completed
    /\ cryptfs
    /\ need_mount_fs
    /\ calls = <<"unlock_fs()", "mount()", "umount()", "lock_fs()">>
    /\ Cardinality(transferred) = 3
    /\ \A s \in Servers : Removed(s) # {}

\* the prune step of server number i of the configuration has been executed
Pruned(i) == i < srv \/ pc \in {"umount", "lock", "post"}

\* the snapshot dates that held the relative directory rel when the run
\* started
Captures(s, rel) ==
    {d \in DateDirs(before.tree, s) : (<<d>> \o rel) \in before.tree[s]}

C24_ReportCompleteness ==
    run.mode = "check" => pc # "raised"

\* C26: the prune step removes neither the snapshot dated today nor the most
\* recent snapshot date of the server root, for every number_of_versions >= 0
\* and also in a second run of a day.
C26_NewestNeverPruned ==
    run.mode = "backup" =>
        \A s \in Servers :
            \A d \in Removed(s) :
                /\ d # run.backup_date
                /\ \E e \in DateDirs(tree, s) : StrLess(d, e)

\* C29: the directory <date>/<relative-dir> a transfer has just linked
\* against is on disk, and no snapshot date of the root of the server being
\* processed has been removed before the prune step of that server.
C29_LinkReferenceExists ==
    Transferred =>
        /\ Removed(servername) = {}
        /\ lastCmd.last_backup # None =>
              is_dir(lastCmd.server, lastCmd.last_backup,
                     stripped_directory(lastCmd.directory))

\* a transfer has linked against a date that the prune step of an earlier
\* server removed from the root of that server
C29_Witness ==
    /\ Transferred
    /\ lastCmd.last_backup # None
    /\ \E s \in Servers \ {servername} : lastCmd.last_backup \in Removed(s)

\* C30: a server root that held at most number_of_versions + 1 snapshot
\* dates when a backup() run started holds at most number_of_versions + 1
\* when the run has completed, on a new day and in a second run of a day.
C30_BoundedGrowth ==
    Completed =>
        \A s \in Servers :
            Count(before.tree, s) <= number_of_versions + 1
                => Count(tree, s) <= number_of_versions + 1

\* a run of a new day found a root at number_of_versions + 1 dates, added
\* today's and removed the oldest
C30_Witness ==
    /\ Completed
    /\ \E s \in Servers :
          /\ Count(before.tree, s) = number_of_versions + 1
          /\ run.backup_date \notin DateDirs(before.tree, s)
          /\ run.backup_date \in DateDirs(tree, s)
          /\ Removed(s) # {}
          /\ Count(tree, s) = number_of_versions + 1

\* the transfers of directory j of server number i made in the current run
Transfers(i, j) ==
    {t \in transferred : t[1] = source_location[i].server /\ t[2] = j}

\* C25: the first backup() run of a calendar day makes exactly one rsync
\* transfer for every configured directory of every server, whatever the
\* order of the directories and also when one is an ancestor of another.
C25_EveryDirectoryCaptured ==
    (Completed /\ \A s \in Servers : run.backup_date \notin DateDirs(before.tree, s)) =>
        \A i \in 1..Len(source_location) :
            \A j \in 1..Len(source_location[i].dirs) :
                Cardinality(Transfers(i, j)) = 1

\* the step runs rsync for a directory
RunsRsync == pc = "dirs" /\ transferred' # transferred

\* C22: once the rsync transfer of a directory has failed on a day, after its
\* destination was created, no later backup() run of that day runs rsync for
\* that directory.
C22_NoRetryAfterFailure ==
    [][(run.mode = "backup" /\ RunsRsync) =>
          <<servername, run.backup_date, CurrentRel, "failed">> \notin outcome]_vars

\* C27: the snapshot a transfer links against is one whose transfer of that
\* directory did not fail (stated for number_of_versions >= 1).
C27_LinkReferenceCompleted ==
    (Transferred /\ lastCmd.last_backup # None /\ number_of_versions >= 1) =>
        <<lastCmd.server, lastCmd.last_backup,
          stripped_directory(lastCmd.directory), "failed">> \notin outcome

\* C28: a backup() run without --dryrun that follows a run with --dryrun on
\* the same day makes a transfer for every directory the dry run went
\* through: when it has completed, no destination of today is left as the
\* dry run made it (stated for number_of_versions >= 1).
C28_DryRunLeavesNoTrace ==
    (Completed /\ ~run.dryrun /\ number_of_versions >= 1) =>
        \A i \in 1..Len(source_location) :
            \A j \in 1..Len(source_location[i].dirs) :
                <<source_location[i].server, run.backup_date,
                  stripped_directory(source_location[i].dirs[j]), "dry">> \in outcome
                    => Transfers(i, j) # {}

====
